---------------------------- MODULE Spec2Model ----------------------------
(***************************************************************************)
(* A model of PythonApktool.ApkTool: construction (tool resolution), the   *)
(* process execution primitive _run_cmd, and the operations decompile,     *)
(* build (build -> sign -> align), install_framework, empty_framework_dir. *)
(*                                                                         *)
(* Strings are sequences of tokens.  A path is a string whose directory    *)
(* separator is the token "/"; ".apk" is a token of its own, so that       *)
(* str.replace('.apk', ...) acts on every occurrence; the single quote "'" *)
(* is a token of its own, so that str.split("'") acts on it.               *)
(***************************************************************************)
EXTENDS Naturals, Integers, Sequences, FiniteSets, TLC

VARIABLES
    lookup,     \* the host: which tools the lookup command (which/where) finds
    pc,         \* position of the caller/interpreter
    cfg,        \* the fields of the ApkTool object
    call,       \* parameters and locals of the operation in progress
    fs,         \* the disk: a set of <<path, content>> pairs
    procs,      \* external processes launched during the current operation
    printed,    \* what the current operation printed, in order
    raised      \* the exception that escaped to the caller, or "none"

vars == <<lookup, pc, cfg, call, fs, procs, printed, raised>>

-----------------------------------------------------------------------------
(* Bounds *)

\* the number of output lines an external tool emits while _print_log reads
MaxLogLines == 1

-----------------------------------------------------------------------------
(* Strings *)

None == <<>>

Range(s) == {s[i] : i \in 1..Len(s)}

IsSpace(t) == t \in {" ", "\n"}

RECURSIVE LStrip(_)
LStrip(s) == IF s # <<>> /\ IsSpace(Head(s)) THEN LStrip(Tail(s)) ELSE s

RECURSIVE RStrip(_)
RStrip(s) ==
    IF s # <<>> /\ IsSpace(s[Len(s)]) THEN RStrip(SubSeq(s, 1, Len(s) - 1)) ELSE s

\* str.strip()
Strip(s) == RStrip(LStrip(s))

\* s.split("'")[0]: everything before the first single quote
RECURSIVE SplitFirstQuote(_)
SplitFirstQuote(s) ==
    IF s = <<>> \/ Head(s) = "'" THEN <<>>
    ELSE <<Head(s)>> \o SplitFirstQuote(Tail(s))

\* s.replace('.apk', '_aligned.apk'): every occurrence, left to right
RECURSIVE ReplaceApk(_)
ReplaceApk(s) ==
    IF s = <<>> THEN <<>>
    ELSE (IF Head(s) = ".apk" THEN <<"_aligned", ".apk">> ELSE <<Head(s)>>)
         \o ReplaceApk(Tail(s))

\* repr() of a str, as it appears in the text of an OSError: single quotes,
\* unless the string holds a single quote and no double quote
PyRepr(s) ==
    IF "'" \in Range(s) /\ ~("\"" \in Range(s))
    THEN <<"\"">> \o s \o <<"\"">>
    ELSE <<"'">> \o s \o <<"'">>

-----------------------------------------------------------------------------
(* Paths *)

Cwd == <<"/", "cwd">>

IsAbs(p) == p # <<>> /\ Head(p) = "/"

Join(a, b) == a \o <<"/">> \o b

\* ApkTool._adjust_path
AdjustPath(path) ==
    IF path # None /\ ~IsAbs(path) THEN Join(Cwd, path) ELSE path


-----------------------------------------------------------------------------
(* The host *)

Tools == {"apktool", "apksigner", "zipalign"}

\* where the host lookup command finds a tool that is on the search path
LookupPath(t) == <<"/", "bin", "/", t>>

\* a tool installed outside the search path, given relative to the cwd
LocalTool == <<"tools", "/", "apktool">>

\* paths at which no file exists (the first one holds a single quote)
GhostApktool == <<"/", "o", "'", "b", "/", "apktool">>
GhostSigner == <<"ghost", "/", "apksigner">>
GhostAligner == <<"ghost", "/", "zipalign">>

\* the binaries of the host, given what the lookup command finds
Installed(lk) == {LookupPath(t) : t \in {u \in Tools : lk[u]}} \cup {AdjustPath(LocalTool)}

\* whether subprocess can launch argv[0]
Launchable(lk, p) == p \in Installed(lk)

\* ApkTool._find_tool: run `which`/`where` with check=True, strip its output
FindTool(lk, tool_name) ==
    LET returncode == IF lk[tool_name] THEN 0 ELSE 1
        stdout == IF lk[tool_name] THEN LookupPath(tool_name) \o <<"\n">> ELSE <<>>
        tool_path == Strip(stdout)
    IN  IF returncode # 0 THEN None          \* CalledProcessError
        ELSE IF tool_path = <<>> THEN None
        ELSE tool_path

-----------------------------------------------------------------------------
(* The disk *)

Paths(disk) == {e[1] : e \in disk}

\* os.path.exists
Exists(disk, p) == p \in Paths(disk)

WriteFile(disk, p, content) == {e \in disk : e[1] # p} \cup {<<p, content>>}

RemoveFile(disk, p) == {e \in disk : e[1] # p}

RenameFile(disk, src, dst) ==
    {e \in disk : e[1] # src /\ e[1] # dst} \cup {<<dst, e[2]>> : e \in {d \in disk : d[1] = src}}

ContentOf(disk, p) == {e[2] : e \in {d \in disk : d[1] = p}}

\* p is a file directly in directory d
InDir(p, d) ==
    /\ Len(p) > Len(d) + 1
    /\ SubSeq(p, 1, Len(d)) = d
    /\ p[Len(d) + 1] = "/"
    /\ ~("/" \in Range(SubSeq(p, Len(d) + 2, Len(p))))

\* glob.glob(os.path.join(dist_dir, '*.apk'))
Glob(disk, dist_dir) == {p \in Paths(disk) : InDir(p, dist_dir) /\ p[Len(p)] = ".apk"}

-----------------------------------------------------------------------------
(* Construction *)

NoCfg ==
    [apktool_path |-> None, apksigner_path |-> None, zipalign_path |-> None,
     keystore_path |-> None, keystore_alias |-> <<>>, keystore_password |-> <<>>,
     include_paths_in_messages |-> FALSE]

NoCall ==
    [op |-> "none", show_log |-> FALSE, cmd |-> <<>>, success_message |-> <<>>,
     folder_path |-> None, output_apk |-> None, output_given |-> FALSE,
     apk_path |-> None, cmd_result |-> "none", signed |-> "none", aligned |-> "none",
     \* what line 224 and the scan of lines 227-228 saw (kept for the properties)
     determined |-> FALSE, output_existed |-> FALSE, dist_apks |-> {}]

\* __init__, lines 10, 14, 18: an explicit path is adjusted, an omitted one looked up
ResolveTool(lk, arg, tool_name) ==
    IF arg # None THEN AdjustPath(arg) ELSE FindTool(lk, tool_name)

\* __init__, lines 23-27
ResolveKeystore(arg) ==
    IF arg # None THEN AdjustPath(arg)
    ELSE Join(Join(Cwd, <<"SignKey">>), <<"debug", ".keystore">>)

ApktoolArgs == {None, LocalTool, GhostApktool}
SignerArgs == {None, GhostSigner}
AlignerArgs == {None, GhostAligner}
KeystoreArgs == {None, <<"my", ".keystore">>}

\* ApkTool.__init__
Construct(apktool_arg, apksigner_arg, zipalign_arg, keystore_arg, include_paths) ==
    /\ pc = "new"
    /\ LET a == ResolveTool(lookup, apktool_arg, "apktool")
           s == ResolveTool(lookup, apksigner_arg, "apksigner")
           z == ResolveTool(lookup, zipalign_arg, "zipalign")
       IN  IF a = None \/ s = None \/ z = None
           THEN /\ pc' = "failed"
                /\ raised' = "FileNotFoundError"
                /\ cfg' = cfg
           ELSE /\ pc' = "idle"
                /\ raised' = "none"
                /\ cfg' = [apktool_path |-> a, apksigner_path |-> s, zipalign_path |-> z,
                           keystore_path |-> ResolveKeystore(keystore_arg),
                           keystore_alias |-> <<"androiddebugkey">>,
                           keystore_password |-> <<"android">>,
                           include_paths_in_messages |-> include_paths]
    /\ UNCHANGED <<lookup, call, fs, procs, printed>>

Worlds == {lk \in [Tools -> BOOLEAN] : Cardinality({t \in Tools : ~lk[t]}) <= 1}

Init ==
    /\ lookup \in Worlds
    /\ pc = "new"
    /\ cfg = NoCfg
    /\ call = NoCall
    /\ fs = {}
    /\ procs = <<>>
    /\ printed = <<>>
    /\ raised = "none"

-----------------------------------------------------------------------------
(* Messages *)

\* print(colour + text + Style.RESET_ALL); src tells a status message the
\* wrapper composes ("status") from a line of tool output it relays ("log")
Msg(colour, text, src) == [colour |-> colour, text |-> text, src |-> src]

CodeStr(return_code) == IF return_code = 0 THEN "0" ELSE "1"

\* str(e) of the OSError raised when argv[0] cannot be launched
OSErrorText(filename) ==
    <<"[Errno 2] No such file or directory:", " ">> \o PyRepr(filename)

RECURSIVE ListItems(_)
ListItems(cmd) ==
    IF cmd = <<>> THEN <<>>
    ELSE PyRepr(Head(cmd)) \o (IF Len(cmd) > 1 THEN <<",", " ">> ELSE <<>>)
         \o ListItems(Tail(cmd))

\* str(e) of subprocess.CalledProcessError
CalledProcessErrorText(cmd, return_code) ==
    <<"Command", " ", "'", "[">> \o ListItems(cmd)
        \o <<"]", "'", " ", "returned non-zero exit status", " ", CodeStr(return_code), ".">>

\* a _run_cmd that prints the success message as it is, whatever the flag
RunCmdSuccessMsg_Uncut(include_paths, success_message) ==
    [colour |-> "GREEN", text |-> success_message, src |-> "status"]

\* _run_cmd, lines 101-108: the message printed for exit code 0
RunCmdSuccessMsg(include_paths, success_message) ==
    IF include_paths THEN Msg("GREEN", success_message, "status")
    ELSE Msg("GREEN", Strip(SplitFirstQuote(success_message)), "status")

\* _run_cmd, lines 109-113: the message printed for a non-zero exit code
RunCmdFailureMsg(include_paths, return_code) ==
    LET error_message == <<"Command failed with return code", " ", CodeStr(return_code)>>
    IN  Msg("RED", IF include_paths THEN error_message
                   ELSE SplitFirstQuote(error_message), "status")

\* _run_cmd, lines 114-118: the message printed for an exception
RunCmdExceptionMsg(include_paths, e) ==
    LET error_message == <<"Error during command execution:", " ">> \o e
    IN  Msg("RED", IF include_paths THEN error_message
                   ELSE SplitFirstQuote(error_message), "status")

\* _print_log, lines 68-77: what is printed for one line of tool output
PrintLogLine(line) ==
    LET decoded_line == Strip(line)
        first == IF decoded_line = <<>> THEN "" ELSE Head(decoded_line)
    IN  IF first = "I:" THEN <<Msg("BLUE", decoded_line, "log")>>
        ELSE IF first = "W:" THEN <<Msg("YELLOW", decoded_line, "log")>>
        ELSE IF first = "E:" THEN <<Msg("RED", decoded_line, "log")>>
        ELSE IF ~("Press any key to continue" \in Range(decoded_line))
             THEN <<Msg("PLAIN", decoded_line, "log")>>
        ELSE <<>>

\* _print_log: the loop over the lines of the process's output
RECURSIVE PrintLog(_)
PrintLog(lines) ==
    IF lines = <<>> THEN <<>> ELSE PrintLogLine(Head(lines)) \o PrintLog(Tail(lines))

\* lines an external tool may write to its output
LogLines ==
    {<<"I:", " ", "Loading resource table from file:", " ", "/", "fw", "/", "1", ".apk", "\n">>,
     <<"Press any key to continue", " ", ".", "\n">>,
     <<"Exception in thread main", "\n">>}

RECURSIVE SeqsUpTo(_, _)
SeqsUpTo(S, n) ==
    IF n = 0 THEN {<<>>}
    ELSE SeqsUpTo(S, n - 1) \cup
         {Append(q, x) : q \in {r \in SeqsUpTo(S, n - 1) : Len(r) = n - 1}, x \in S}

ExitCodes == {0, 1}

-----------------------------------------------------------------------------
(* The process execution primitive, ApkTool._run_cmd *)

AddIo(events) == [procs EXCEPT ![Len(procs)].io = @ \o events]

\* where the caller of _run_cmd continues: build goes on to find the
\* artifact (line 224), the other operations return
AfterRunCmd(op) == IF op = "build" THEN "determine" ELSE "returned"

\* lines 84-89 (and 114-118 when Popen raises)
Popen ==
    /\ pc = "popen"
    /\ IF Launchable(lookup, call.cmd[1])
       THEN /\ procs' = Append(procs, [cmd |-> call.cmd, api |-> "Popen",
                                       io |-> <<"spawn">>, returncode |-> -1])
            /\ pc' = "stdin"
            /\ UNCHANGED <<call, printed>>
       ELSE /\ printed' = Append(printed,
                   RunCmdExceptionMsg(cfg.include_paths_in_messages,
                                      OSErrorText(call.cmd[1])))
            /\ call' = [call EXCEPT !.cmd_result = "launch_error"]
            /\ pc' = AfterRunCmd(call.op)
            /\ UNCHANGED procs
    /\ UNCHANGED <<lookup, cfg, fs, raised>>

\* a _run_cmd that writes nothing to the process's stdin
StdinEvents_None == <<>>

\* what _run_cmd does to the process's stdin right after launch, lines 91-92
StdinEvents == <<"write_newline", "flush">>

StdinWrite ==
    /\ pc = "stdin"
    /\ procs' = AddIo(StdinEvents)
    /\ pc' = "read"
    /\ UNCHANGED <<lookup, cfg, call, fs, printed, raised>>

\* lines 94-97
ReadOutput ==
    /\ pc = "read"
    /\ IF call.show_log
       THEN \E lines \in SeqsUpTo(LogLines, MaxLogLines) :
               /\ printed' = printed \o PrintLog(lines)
               /\ procs' = AddIo(<<"readline">>)
       ELSE /\ procs' = AddIo(<<"communicate">>)
            /\ UNCHANGED printed
    /\ pc' = "wait"
    /\ UNCHANGED <<lookup, cfg, call, fs, raised>>

\* lines 100-113; the builder's effect on the disk is the environment's:
\* a build that exits 0 may or may not have written the -o path
WaitAndReport ==
    /\ pc = "wait"
    /\ \E return_code \in ExitCodes, wrote \in BOOLEAN :
          /\ wrote => (call.op = "build" /\ return_code = 0)
          /\ procs' = [AddIo(<<"wait">>) EXCEPT ![Len(procs)].returncode = return_code]
          /\ printed' = Append(printed,
                 IF return_code = 0
                 THEN RunCmdSuccessMsg(cfg.include_paths_in_messages, call.success_message)
                 ELSE RunCmdFailureMsg(cfg.include_paths_in_messages, return_code))
          /\ call' = [call EXCEPT !.cmd_result = IF return_code = 0 THEN "ok" ELSE "failed"]
          /\ fs' = IF wrote THEN WriteFile(fs, call.output_apk, "built") ELSE fs
    /\ pc' = AfterRunCmd(call.op)
    /\ UNCHANGED <<lookup, cfg, raised>>

-----------------------------------------------------------------------------
(* Operations that only run one command *)

ForceFlag(force) == IF force THEN <<<<"-f">>>> ELSE <<>>

\* the start of every operation: a fresh call
Enter(c) ==
    /\ pc = "idle"
    /\ call' = c
    /\ procs' = <<>>
    /\ printed' = <<>>
    /\ raised' = "none"
    /\ pc' = "popen"
    /\ UNCHANGED <<lookup, cfg>>

\* ApkTool.decompile
Decompile(apk_arg, output_arg, force, show_log) ==
    LET apk_path == AdjustPath(apk_arg)
        output_dir == IF output_arg # None THEN AdjustPath(output_arg) ELSE None
        cmd == <<cfg.apktool_path, <<"d">>, apk_path>> \o ForceFlag(force)
               \o (IF output_dir # None THEN <<<<"-o">>, output_dir>> ELSE <<>>)
    IN  /\ Enter([NoCall EXCEPT !.op = "decompile", !.show_log = show_log, !.cmd = cmd,
                    !.success_message =
                        <<"Successfully decompiled", " ", "'">> \o apk_path \o <<"'">>])
        /\ UNCHANGED fs

\* ApkTool.install_framework
InstallFramework(apk_arg, tag, force, show_log) ==
    LET apk_path == AdjustPath(apk_arg)
        cmd == <<cfg.apktool_path, <<"if">>, apk_path>> \o ForceFlag(force)
               \o (IF tag # None THEN <<<<"-t">>, tag>> ELSE <<>>)
    IN  /\ Enter([NoCall EXCEPT !.op = "install_framework", !.show_log = show_log,
                    !.cmd = cmd,
                    !.success_message =
                        <<"Successfully installed framework from", " ", "'">>
                            \o apk_path \o <<"'">>])
        /\ UNCHANGED fs

\* ApkTool.empty_framework_dir
EmptyFrameworkDir(show_log) ==
    /\ Enter([NoCall EXCEPT !.op = "empty_framework_dir", !.show_log = show_log,
                !.cmd = <<cfg.apktool_path, <<"empty-framework-dir">>>>,
                !.success_message =
                    <<"Successfully emptied the apktool framework directory">>])
    /\ UNCHANGED fs

-----------------------------------------------------------------------------
(* ApkTool.build: build -> sign -> align *)

\* a build without a default output path
BuildOutput_NoDefault(folder_path, output_arg) ==
    IF output_arg # None THEN AdjustPath(output_arg) ELSE None

\* line 212: the output path build works with
BuildOutput(folder_path, output_arg) ==
    IF output_arg # None THEN AdjustPath(output_arg)
    ELSE folder_path \o <<"_Signed", ".apk">>

\* lines 214-218
BuildCmd(apktool_path, folder_path, force, output_apk) ==
    <<apktool_path, <<"b">>, folder_path>> \o ForceFlag(force)
        \o (IF output_apk # None THEN <<<<"-o">>, output_apk>> ELSE <<>>)

DistDir(folder_path) == Join(folder_path, <<"dist">>)

\* files that may lie on the disk when build is called
DiskCandidates(folder_path, output_apk, keystore_path) ==
    {output_apk, keystore_path,
     Join(DistDir(folder_path), <<"x", ".apk">>),
     Join(DistDir(folder_path), <<"y", ".apk">>),
     Join(DistDir(folder_path), <<"notes", ".txt">>)}

\* lines 211-221; the disk is shared with the environment, and what lies
\* on it when build is called is an input of the call
Build(folder_arg, output_arg, force, show_log, files) ==
    LET folder_path == AdjustPath(folder_arg)
        output_apk == BuildOutput(folder_path, output_arg)
    IN  /\ files \subseteq DiskCandidates(folder_path, output_apk, cfg.keystore_path)
        /\ Enter([NoCall EXCEPT !.op = "build", !.show_log = show_log,
                    !.cmd = BuildCmd(cfg.apktool_path, folder_path, force, output_apk),
                    !.success_message =
                        <<"Successfully built", " ", "'">> \o folder_path \o <<"'">>,
                    !.folder_path = folder_path, !.output_apk = output_apk,
                    !.output_given = (output_arg # None)])
        /\ fs' = {<<f, "old">> : f \in files}

\* a build that falls back on the output path when the scan finds nothing
ArtifactChoices_Fallback(disk, folder_path, output_apk) ==
    IF output_apk # None /\ Exists(disk, output_apk) THEN {output_apk}
    ELSE IF Glob(disk, Join(folder_path, <<"dist">>)) = {} THEN {output_apk}
    ELSE Glob(disk, Join(folder_path, <<"dist">>))

\* lines 224-230: the paths apk_path may become (glob's order is the
\* directory's, so any match may be apk_files[0]); empty when none is found
ArtifactChoices(disk, folder_path, output_apk) ==
    IF output_apk # None /\ Exists(disk, output_apk) THEN {output_apk}
    ELSE Glob(disk, DistDir(folder_path))

\* lines 232-235
NoApkMsg(include_paths) ==
    Msg("RED", IF include_paths
               THEN <<"No APK file found in dist directory after build.">>
               ELSE <<"No APK file found after build.">>, "status")

\* lines 223-236
DetermineApk ==
    /\ pc = "determine"
    /\ LET choices == ArtifactChoices(fs, call.folder_path, call.output_apk)
           seen == [call EXCEPT !.determined = TRUE,
                                !.output_existed = Exists(fs, call.output_apk),
                                !.dist_apks = Glob(fs, DistDir(call.folder_path))]
       IN  IF choices = {}
           THEN /\ printed' = Append(printed, NoApkMsg(cfg.include_paths_in_messages))
                /\ pc' = "returned"
                /\ call' = seen
           ELSE /\ \E apk_path \in choices : call' = [seen EXCEPT !.apk_path = apk_path]
                /\ pc' = "sign"
                /\ UNCHANGED printed
    /\ UNCHANGED <<lookup, cfg, fs, procs, raised>>

\* a _sign_apk that does not look for the keystore
KeystoreMissing_Unchecked(disk, keystore_path) == FALSE

\* line 124
KeystoreMissing(disk, keystore_path) == ~Exists(disk, keystore_path)

\* lines 132-140
SignCmd(c, apk_path) ==
    <<c.apksigner_path, <<"sign">>, <<"--ks">>, c.keystore_path,
      <<"--ks-key-alias">>, c.keystore_alias,
      <<"--ks-pass">>, <<"pass:">> \o c.keystore_password,
      <<"--key-pass">>, <<"pass:">> \o c.keystore_password,
      <<"--v4-signing-enabled">>, <<"false">>, apk_path>>

\* lines 125-128
KeystoreMsg(include_paths, keystore_path) ==
    Msg("RED", IF include_paths THEN <<"Keystore not found at", " ">> \o keystore_path
               ELSE <<"Keystore not found.">>, "status")

\* lines 144-147
SignedMsg(include_paths, apk_path, keystore_path) ==
    Msg("GREEN", IF include_paths
                 THEN <<"Successfully signed", " ", "'">> \o apk_path
                      \o <<"'", " ", "with keystore", " ", "'">> \o keystore_path \o <<"'", ".">>
                 ELSE <<"Successfully signed.">>, "status")

\* lines 150-153
SignFailedMsg(include_paths, e) ==
    Msg("RED", IF include_paths THEN <<"Failed to sign APK:", " ">> \o e
               ELSE <<"Failed to sign APK.">>, "status")

\* a build that aligns whatever _sign_apk returned
AfterSign_AlwaysAlign(signed) == "align"

\* lines 240-242: build aligns only if _sign_apk returned True
AfterSign(signed) == IF signed THEN "align" ELSE "returned"

\* a process run by subprocess.run(..., stdout=DEVNULL, stderr=DEVNULL)
RunProc(cmd, return_code) ==
    [cmd |-> cmd, api |-> "run", io |-> <<"spawn", "wait">>, returncode |-> return_code]

\* ApkTool._sign_apk, called from build at line 239
SignApk ==
    /\ pc = "sign"
    /\ LET inc == cfg.include_paths_in_messages
           cmd == SignCmd(cfg, call.apk_path)
       IN  IF KeystoreMissing(fs, cfg.keystore_path)
           THEN /\ printed' = Append(printed, KeystoreMsg(inc, cfg.keystore_path))
                /\ call' = [call EXCEPT !.signed = "false"]
                /\ pc' = AfterSign(FALSE)
                /\ UNCHANGED <<fs, procs, raised>>
           ELSE IF ~Launchable(lookup, cmd[1])
           THEN \* subprocess.run raises an OSError, which line 149 does not catch
                /\ raised' = "FileNotFoundError"
                /\ pc' = "returned"
                /\ UNCHANGED <<fs, procs, printed, call>>
           ELSE \E return_code \in ExitCodes :
                   /\ procs' = Append(procs, RunProc(cmd, return_code))
                   /\ IF return_code = 0
                      THEN /\ fs' = WriteFile(fs, call.apk_path, "signed")
                           /\ printed' = Append(printed,
                                  SignedMsg(inc, call.apk_path, cfg.keystore_path))
                           /\ call' = [call EXCEPT !.signed = "true"]
                           /\ pc' = AfterSign(TRUE)
                      ELSE /\ fs' = fs
                           /\ printed' = Append(printed,
                                  SignFailedMsg(inc, CalledProcessErrorText(cmd, return_code)))
                           /\ call' = [call EXCEPT !.signed = "false"]
                           /\ pc' = AfterSign(FALSE)
                   /\ UNCHANGED raised
    /\ UNCHANGED <<lookup, cfg>>

\* line 158
AlignedPath(apk_path) == ReplaceApk(apk_path)

\* lines 160-164
ZipalignCmd(c, apk_path, aligned_apk_path) ==
    <<c.zipalign_path, <<"-v">>, <<"4">>, apk_path, aligned_apk_path>>

\* lines 171-174
AlignedMsg(include_paths, apk_path) ==
    Msg("GREEN", IF include_paths
                 THEN <<"Successfully zipaligned", " ", "'">> \o apk_path \o <<"'", ".">>
                 ELSE <<"Successfully zipaligned.">>, "status")

\* lines 176-179
AlignFailedMsg(include_paths, e) ==
    Msg("RED", IF include_paths THEN <<"Failed to zipalign APK:", " ">> \o e
               ELSE <<"Failed to zipalign APK.">>, "status")

\* ApkTool._zipalign_apk, called from build at line 242.  An aligner that
\* exits 0 has written its output file; os.remove and os.rename raise
\* FileNotFoundError on a missing file, which line 175 does not catch.
ZipalignApk ==
    /\ pc = "align"
    /\ LET inc == cfg.include_paths_in_messages
           apk_path == call.apk_path
           aligned_apk_path == AlignedPath(apk_path)
           cmd == ZipalignCmd(cfg, apk_path, aligned_apk_path)
       IN  IF ~Launchable(lookup, cmd[1])
           THEN /\ raised' = "FileNotFoundError"
                /\ UNCHANGED <<fs, procs, printed, call>>
           ELSE \E return_code \in ExitCodes :
                   /\ procs' = Append(procs, RunProc(cmd, return_code))
                   /\ IF return_code # 0
                      THEN /\ printed' = Append(printed,
                                  AlignFailedMsg(inc, CalledProcessErrorText(cmd, return_code)))
                           /\ call' = [call EXCEPT !.aligned = "failed"]
                           /\ UNCHANGED <<fs, raised>>
                      ELSE LET written == WriteFile(fs, aligned_apk_path, "aligned")
                               removed == RemoveFile(written, apk_path)
                           IN  /\ call' = [call EXCEPT !.aligned = "ok"]
                               /\ IF ~Exists(written, apk_path)
                                  THEN /\ fs' = written
                                       /\ raised' = "FileNotFoundError"
                                       /\ UNCHANGED printed
                                  ELSE IF ~Exists(removed, aligned_apk_path)
                                  THEN /\ fs' = removed
                                       /\ raised' = "FileNotFoundError"
                                       /\ UNCHANGED printed
                                  ELSE /\ fs' = RenameFile(removed, aligned_apk_path, apk_path)
                                       /\ printed' = Append(printed, AlignedMsg(inc, apk_path))
                                       /\ UNCHANGED raised
    /\ pc' = "returned"
    /\ UNCHANGED <<lookup, cfg>>

\* the operation has returned (or raised) and the caller goes on; the frame
\* and its output are dropped, and nothing is assumed of the disk until the
\* next call
Return ==
    /\ pc = "returned"
    /\ pc' = "idle"
    /\ call' = NoCall
    /\ procs' = <<>>
    /\ printed' = <<>>
    /\ raised' = "none"
    /\ fs' = {}
    /\ UNCHANGED <<lookup, cfg>>

-----------------------------------------------------------------------------
(* The specification *)

FolderArgs == {<<"app">>}
OutputArgs == {None, <<"out", ".zip">>, <<"rel", ".apk", "/", "out", ".apk">>}

Next ==
    \/ /\ pc = "new"
       /\ \E a \in ApktoolArgs, s \in SignerArgs, z \in AlignerArgs, k \in KeystoreArgs,
             inc \in BOOLEAN : Construct(a, s, z, k, inc)
    \/ /\ pc = "idle"
       /\ \E o \in {None, <<"outdir">>}, force \in BOOLEAN, show_log \in BOOLEAN :
             Decompile(<<"app", ".apk">>, o, force, show_log)
    \/ /\ pc = "idle"
       /\ \E tag \in {None, <<"tag">>}, force \in BOOLEAN, show_log \in BOOLEAN :
             InstallFramework(<<"fw", ".apk">>, tag, force, show_log)
    \/ /\ pc = "idle"
       /\ \E show_log \in BOOLEAN : EmptyFrameworkDir(show_log)
    \/ /\ pc = "idle"
       /\ \E f \in FolderArgs, o \in OutputArgs, force \in BOOLEAN, show_log \in BOOLEAN :
             \E files \in SUBSET DiskCandidates(AdjustPath(f), BuildOutput(AdjustPath(f), o),
                                                cfg.keystore_path) :
                 Build(f, o, force, show_log, files)
    \/ Popen
    \/ StdinWrite
    \/ ReadOutput
    \/ WaitAndReport
    \/ DetermineApk
    \/ SignApk
    \/ ZipalignApk
    \/ Return

Spec == Init /\ [][Next]_vars

-----------------------------------------------------------------------------
(* Properties *)

ProcIdx == 1..Len(procs)

IsSigner(p) == p.api = "run" /\ p.cmd[2] = <<"sign">>
IsAligner(p) == p.api = "run" /\ p.cmd[2] = <<"-v">>

SignerRuns == {i \in ProcIdx : IsSigner(procs[i])}
AlignerRuns == {i \in ProcIdx : IsAligner(procs[i])}

HasPath(text) == "/" \in Range(text)
HasQuote(text) == "'" \in Range(text)

StatusMsgs == {printed[i] : i \in {j \in 1..Len(printed) : printed[j].src = "status"}}
LogMsgs == {printed[i] : i \in {j \in 1..Len(printed) : printed[j].src = "log"}}

\* the events of a process that read its output or wait for its exit
ReadEvents == {"readline", "communicate", "wait"}

FirstRead(io) ==
    IF \E i \in 1..Len(io) : io[i] \in ReadEvents
    THEN CHOOSE i \in 1..Len(io) :
            /\ io[i] \in ReadEvents
            /\ \A j \in 1..(i - 1) : ~(io[j] \in ReadEvents)
    ELSE 0

NewlinesBefore(io, n) == Cardinality({i \in 1..Len(io) : i < n /\ io[i] = "write_newline"})

\* one newline after launch and before the first read of the output
FedBeforeRead(p) ==
    FirstRead(p.io) # 0 =>
        /\ NewlinesBefore(p.io, FirstRead(p.io)) = 1
        /\ p.io[1] = "spawn"

\* C1: in a call of build whose build command exits non-zero or cannot be
\* launched, neither the signer nor the aligner is invoked (as claimed)
C1_FailedBuildStopsChain ==
    (call.op = "build" /\ call.cmd_result \in {"failed", "launch_error"}) =>
        (SignerRuns = {} /\ AlignerRuns = {})

\* C2: the aligner is started only after the Sign step of the same call of
\* build returned success; a failed Sign is never followed by Align
C2_AlignOnlyAfterSignSuccess ==
    /\ \A i \in AlignerRuns : \E j \in SignerRuns : j < i /\ procs[j].returncode = 0
    /\ (pc = "align" \/ call.aligned # "none") => call.signed = "true"
    /\ call.signed = "false" => (AlignerRuns = {} /\ pc = "returned")

C2_Witness ==
    /\ call.op = "build" /\ pc = "returned" /\ call.signed = "false"
    /\ \E j \in SignerRuns : procs[j].returncode # 0

\* C3: if the keystore file does not exist when Sign is called, Sign starts
\* no signer process and returns failure
C3_MissingKeystoreNoSigner ==
    (call.apk_path # None /\ pc # "sign" /\ ~Exists(fs, cfg.keystore_path)) =>
        /\ SignerRuns = {}
        /\ call.signed = "false"
        /\ raised = "none"

C3_Witness ==
    /\ call.op = "build" /\ pc = "returned" /\ call.apk_path # None
    /\ ~Exists(fs, cfg.keystore_path)
    /\ cfg.include_paths_in_messages
    /\ call.apk_path # call.output_apk

\* C4 as claimed: given a valid build (the build command exited 0), whenever
\* the default output subdirectory holds no artifact after the build command,
\* build ends without a signer run
C4_EmptyScanNoSigner_Original ==
    (call.determined /\ call.cmd_result = "ok" /\ call.dist_apks = {}) =>
        SignerRuns = {}

\* C4 as amended: whenever, after the build command, the output path build
\* works with does not exist and the default output subdirectory holds no
\* artifact, build reports it and ends without a signer or aligner run
C4_NoArtifactNoSigner ==
    (call.determined /\ call.dist_apks = {} /\ ~call.output_existed) =>
        /\ pc = "returned"
        /\ procs = <<>> \/ (Len(procs) = 1 /\ procs[1].api = "Popen")
        /\ call.apk_path = None /\ call.signed = "none"
        /\ printed[Len(printed)] = NoApkMsg(cfg.include_paths_in_messages)

C4_Witness ==
    /\ call.determined /\ call.dist_apks = {} /\ ~call.output_existed
    /\ call.cmd_result = "ok"
    /\ Exists(fs, cfg.keystore_path)

\* C5: once the aligner has exited 0 and Align is over, the aligned file
\* lies at the artifact's former path and the separate aligned file is gone
\* (as claimed, for every artifact path build can pass)
C5_AlignedReplacesOriginal ==
    (pc = "returned" /\ call.aligned = "ok") =>
        /\ ContentOf(fs, call.apk_path) = {"aligned"}
        /\ AlignedPath(call.apk_path) # call.apk_path =>
               ~Exists(fs, AlignedPath(call.apk_path))

\* C6: an object exists only if each of its three tool paths is an existing,
\* launchable binary (as claimed, for explicit and looked-up paths alike)
C6_ConstructedMeansResolved ==
    ~(pc \in {"new", "failed"}) =>
        /\ Launchable(lookup, cfg.apktool_path)
        /\ Launchable(lookup, cfg.apksigner_path)
        /\ Launchable(lookup, cfg.zipalign_path)

\* C7: no operation lets an exception escape to its caller (as claimed)
C7_NothingRaised == pc # "failed" => raised = "none"

C9_EveryProcessFed_Original == \A i \in ProcIdx : FedBeforeRead(procs[i])

\* C9 as amended: every process launched by the process execution primitive
\* (the decompile, build, install-framework and empty-framework-dir commands)
\* gets exactly one newline on its stdin after launch and before its output
\* is first read or its exit awaited, whatever showLog is
C9_PrimitiveProcessFed ==
    \A i \in ProcIdx : procs[i].api = "Popen" =>
        /\ FedBeforeRead(procs[i])
        /\ pc \in {"read", "wait"} => NewlinesBefore(procs[i].io, Len(procs[i].io) + 1) = 1

C9_Witness ==
    /\ call.show_log
    /\ \E i \in ProcIdx : procs[i].api = "Popen" /\ FirstRead(procs[i].io) = 4

\* the '-o <path>' arguments of a command
OutputOption(cmd) ==
    {cmd[i + 1] : i \in {j \in 1..(Len(cmd) - 1) : cmd[j] = <<"-o">>}}

\* C10 as claimed: the artifact is the output path if that was given and
\* exists after the build, in every other case a file the scan found; the
\* command carries -o only when the output path was given
C10_ArtifactChoice_Original ==
    /\ call.op = "build" =>
           ((OutputOption(call.cmd) # {}) <=> call.output_given)
    /\ (call.determined /\ call.apk_path # None) =>
           IF call.output_given /\ call.output_existed
           THEN call.apk_path = call.output_apk
           ELSE call.apk_path \in call.dist_apks

\* C10 as amended: build works with an output path that is the given one, or
\* folder + "_Signed.apk" when none is given; the command always carries
\* -o <that path>; the artifact is that path if it exists after the build,
\* otherwise a file the scan found, and it is the file the signer is given.
\* When that path does not exist and the scan finds exactly one artifact,
\* build goes on to sign that artifact.
C10_ArtifactChoice ==
    call.determined =>
        /\ ~call.output_given => call.output_apk = call.folder_path \o <<"_Signed", ".apk">>
        /\ OutputOption(call.cmd) = {call.output_apk}
        /\ call.apk_path # None =>
               IF call.output_existed
               THEN call.apk_path = call.output_apk
               ELSE call.apk_path \in call.dist_apks
        /\ (call.apk_path = None) <=> (~call.output_existed /\ call.dist_apks = {})
        /\ \A i \in SignerRuns : procs[i].cmd[Len(procs[i].cmd)] = call.apk_path
        /\ (~call.output_existed /\ Cardinality(call.dist_apks) = 1) =>
               /\ call.dist_apks = {call.apk_path}
               /\ pc = "sign" \/ call.signed # "none" \/ raised # "none"

C10_Witness ==
    /\ call.determined /\ ~call.output_given /\ ~call.output_existed
    /\ Cardinality(call.dist_apks) = 1
    /\ \E i \in SignerRuns : procs[i].cmd[Len(procs[i].cmd)] \in call.dist_apks

=============================================================================
